---------------------------- MODULE Spec2Model ----------------------------
(***************************************************************************)
(* Model of GodotDocsConverter (src/src/index.ts).                         *)
(*                                                                         *)
(* Several specifications share the module:                                *)
(*   Spec       - the orchestrator convertFilesConcurrently together with  *)
(*                the per-document chain convertRstToMarkdownAsync /       *)
(*                convertRstToMarkdown, on the single JavaScript thread;   *)
(*   FairSpec   - Spec with every enabled step eventually taken;           *)
(*   FilterSpec - the pure line scanner filterByLanguage;                  *)
(*   TableSpec  - the pure functions reconstructTables,                    *)
(*                extractPropertiesTable and extractMethodsTable;          *)
(*   CleanSpec  - the cleaner cleanupForLLM, applied once and then to its  *)
(*                own output;                                              *)
(*   ConfigSpec - the constructor's merge of a custom configuration and    *)
(*                updateConfig.                                            *)
(* Sequences are 1-based here; the 0-based indices of the source are       *)
(* shifted by one where an index is stored.                                *)
(***************************************************************************)
EXTENDS Integers, Sequences, FiniteSets, TLC

\* ------------------------------------------------------------------ bounds
\* Largest number of documents findRstFiles hands to the orchestrator.
MaxDocs == 4
\* Largest value of config.concurrency that is explored (it is >= 1).
MaxConcurrency == 3
\* Largest number of lines of a document handed to filterByLanguage.
MaxLines == 5
\* Largest number of lines that follow the section headings of a cleaned
\* document handed to reconstructTables.
MaxTail == 4
\* Longest converter output, in lines, given to cleanupForLLM.
MaxClean == 4
\* Largest number of updateConfig calls on one converter.
MaxUpdates == 1

VARIABLES
  \* ---- orchestrator (convertFilesConcurrently) ----
  rstFiles,        \* the ordered list of document paths (argument)
  concurrency,     \* this.config.concurrency
  pc,              \* position of convertFilesConcurrently
  i,               \* loop variable of the batch loop (0-based offset)
  batch,           \* rstFiles.slice(i, i + concurrency)
  dispatched,      \* number of callbacks batch.map has invoked so far
  running,         \* document whose synchronous chain is on the call stack, 0: none
  phase,           \* per document: position of its processing
  thrown,          \* per document: the error raised by its chain, "none" if none
  settled,         \* per document: state of the promise of convertRstToMarkdownAsync
  tmpFiles,        \* documents whose scratch file '<path>.tmp' exists on disk
  microtasks,      \* FIFO queue of suspended callback continuations (documents)
  results,         \* the results array: slot -> content, or Hole
  completed,       \* the completed counter
  warnings,        \* per document: number of console.warn lines naming it
  convertedFiles,  \* this.convertedFiles
  \* ---- filterByLanguage ----
  rstContent,      \* the argument, as its list of lines content.split('\n')
  language,        \* this.config.language
  fpc,             \* "input": not yet called, "filtered": the call has returned
  filteredLines,   \* the lines of the returned text
  keptIdx,         \* for each returned line, the index of the input line pushed
  \* ---- reconstructTables ----
  mdLines,         \* the argument, as its list of lines content.split('\n')
  tpc,             \* "input": not yet called, "done": the call has returned
  result,          \* the result array at the return: one string (a list of lines) per element
  reconstructed,   \* the lines of the returned text result.join('\n')
  \* ---- cleanupForLLM ----
  converted,       \* the argument (pandoc's output), as its list of lines
  cpc,             \* "input", "cleaned": one call returned, "recleaned": a second
  cleaned,         \* the lines of cleanupForLLM(converted)
  recleaned,       \* the lines of cleanupForLLM(cleaned)
  \* ---- configuration ----
  config,          \* this.config
  kpc,             \* "new": before the constructor, "constructed", "updated"
  customConfig,    \* the argument of the constructor
  newConfig,       \* the argument of the last updateConfig call
  previous,        \* this.config at the last updateConfig call
  updates          \* number of updateConfig calls so far

orchVars == <<rstFiles, concurrency, pc, i, batch, dispatched, running, phase,
              thrown, settled, tmpFiles, microtasks, results, completed,
              warnings, convertedFiles>>

filterVars == <<rstContent, language, fpc, filteredLines, keptIdx>>

tableVars == <<mdLines, tpc, result, reconstructed>>

cleanVars == <<converted, cpc, cleaned, recleaned>>

configVars == <<config, kpc, customConfig, newConfig, previous, updates>>

vars == <<orchVars, filterVars, tableVars, cleanVars, configVars>>

\* ----------------------------------------------------------------- helpers
Min(a, b) == IF a < b THEN a ELSE b

Range(s) == {s[x] : x \in DOMAIN s}

\* Array.prototype.slice(from, to) with 0-based, end-exclusive bounds.
Slice(s, from, to) ==
  [x \in 1..(Min(to, Len(s)) - Min(from, Len(s))) |-> s[Min(from, Len(s)) + x]]

\* --------------------------------------------------------- orchestrator
\* An empty slot of `new Array(n)`: Array.prototype.filter skips it.
Hole == [hole |-> TRUE]

\* header + cleanedContent of one document: the header names the document.
Content(path) == [header |-> path]

\* markdownContent.trim() is truthy: the header '## <relative path>' is never blank.
TrimIsNonEmpty(content) == content.header # 0

Docs == 1..Len(rstFiles)

\* const globalIndex = i + batchIndex (batchIndex is 0-based in the source).
GlobalIndexNoOffset(base, batchIndex) == batchIndex
GlobalIndex(base, batchIndex) == base + batchIndex

\* rstFiles.slice(i, i + this.config.concurrency)
BatchOneTooMany(base) == Slice(rstFiles, base, base + concurrency + 1)
BatchOf(base) == Slice(rstFiles, base, base + concurrency)

\* 0-based position of a document inside the current batch.
BatchIndexOf(d) == CHOOSE b \in 0..(Len(batch) - 1) : batch[b + 1] = d

\* The promise state that the chain's end gives: resolve(value) or reject(error).
SettleAlwaysResolved(err) == "resolved"
SettleAs(err) == IF err = "none" THEN "resolved" ELSE "rejected"

\* results.filter(result => result !== null): holes are skipped by filter.
FilterResults(res) ==
  LET keep(x) == x # Hole /\ x # [null |-> TRUE]
  IN  SelectSeq(res, keep)

OrchInit ==
  /\ rstFiles \in {[p \in 1..n |-> p] : n \in 0..MaxDocs}
  /\ concurrency \in 1..MaxConcurrency
  /\ pc = "loop"
  /\ i = 0
  /\ batch = <<>>
  /\ dispatched = 0
  /\ running = 0
  /\ phase = [d \in Docs |-> "idle"]
  /\ thrown = [d \in Docs |-> "none"]
  /\ settled = [d \in Docs |-> "pending"]
  /\ tmpFiles = {}
  /\ microtasks = <<>>
  /\ results = [x \in Docs |-> Hole]
  /\ completed = 0
  /\ warnings = [d \in Docs |-> 0]
  /\ convertedFiles = <<>>

\* for (let i = 0; i < rstFiles.length; ...): the loop test, and the slice.
LoopTest ==
  /\ pc = "loop"
  /\ IF i < Len(rstFiles)
       THEN /\ batch' = BatchOf(i)
            /\ dispatched' = 0
            /\ pc' = "map"
       ELSE /\ pc' = "filter"
            /\ UNCHANGED <<batch, dispatched>>
  /\ UNCHANGED <<rstFiles, concurrency, i, running, phase, thrown, settled,
                 tmpFiles, microtasks, results, completed, warnings, convertedFiles>>

\* batch.map invokes the async callback of the next document: it runs
\* synchronously into convertRstToMarkdownAsync and convertRstToMarkdown.
StartDoc ==
  /\ pc = "map"
  /\ running = 0
  /\ dispatched < Len(batch)
  /\ LET d == batch[dispatched + 1] IN
       /\ running' = d
       /\ phase' = [phase EXCEPT ![d] = "read"]
  /\ UNCHANGED <<rstFiles, concurrency, pc, i, batch, dispatched, thrown, settled,
                 tmpFiles, microtasks, results, completed, warnings, convertedFiles>>

\* fs.readFileSync(rstFilePath) and filterByLanguage: the read may throw.
ReadSource ==
  /\ running # 0
  /\ phase[running] = "read"
  /\ \/ /\ phase' = [phase EXCEPT ![running] = "write"]
        /\ UNCHANGED thrown
     \/ /\ phase' = [phase EXCEPT ![running] = "catch"]
        /\ thrown' = [thrown EXCEPT ![running] = "read"]
  /\ UNCHANGED <<rstFiles, concurrency, pc, i, batch, dispatched, running, settled,
                 tmpFiles, microtasks, results, completed, warnings, convertedFiles>>

\* fs.writeFileSync(tempFile, ...): it is outside the inner try/finally. A
\* failure either leaves no file (open failed) or a created file (the write
\* after the open failed, e.g. the disk is full).
WriteTemp ==
  /\ running # 0
  /\ phase[running] = "write"
  /\ \/ /\ tmpFiles' = tmpFiles \cup {running}
        /\ phase' = [phase EXCEPT ![running] = "exec"]
        /\ UNCHANGED thrown
     \/ /\ tmpFiles' = tmpFiles
        /\ phase' = [phase EXCEPT ![running] = "catch"]
        /\ thrown' = [thrown EXCEPT ![running] = "write"]
     \/ /\ tmpFiles' = tmpFiles \cup {running}
        /\ phase' = [phase EXCEPT ![running] = "catch"]
        /\ thrown' = [thrown EXCEPT ![running] = "write"]
  /\ UNCHANGED <<rstFiles, concurrency, pc, i, batch, dispatched, running, settled,
                 microtasks, results, completed, warnings, convertedFiles>>

\* execSync(pandoc ...): blocks the thread until the converter returns or fails.
RunPandoc ==
  /\ running # 0
  /\ phase[running] = "exec"
  /\ \/ /\ phase' = [phase EXCEPT ![running] = "cleanup"]
        /\ UNCHANGED thrown
     \/ /\ phase' = [phase EXCEPT ![running] = "finally"]
        /\ thrown' = [thrown EXCEPT ![running] = "pandoc"]
  /\ UNCHANGED <<rstFiles, concurrency, pc, i, batch, dispatched, running, settled,
                 tmpFiles, microtasks, results, completed, warnings, convertedFiles>>

\* cleanupForLLM(result) and the header: an exception here goes to finally too.
CleanupStep ==
  /\ running # 0
  /\ phase[running] = "cleanup"
  /\ phase' = [phase EXCEPT ![running] = "finally"]
  /\ \/ UNCHANGED thrown
     \/ thrown' = [thrown EXCEPT ![running] = "cleanup"]
  /\ UNCHANGED <<rstFiles, concurrency, pc, i, batch, dispatched, running, settled,
                 tmpFiles, microtasks, results, completed, warnings, convertedFiles>>

\* The promise settles and the callback suspends at its await: its
\* continuation is queued as a microtask, and batch.map moves on.
Suspend(d, err) ==
  /\ settled' = [settled EXCEPT ![d] = SettleAs(err)]
  /\ phase' = [phase EXCEPT ![d] = "awaiting"]
  /\ microtasks' = Append(microtasks, d)
  /\ running' = 0
  /\ dispatched' = dispatched + 1

\* finally { if (fs.existsSync(tempFile)) fs.unlinkSync(tempFile) }: the
\* unlink may throw, which replaces a pending error.
FinallyStep ==
  /\ running # 0
  /\ phase[running] = "finally"
  /\ \/ /\ tmpFiles' = tmpFiles \ {running}
        /\ IF thrown[running] = "none"
             THEN /\ Suspend(running, "none")
                  /\ UNCHANGED thrown
             ELSE /\ phase' = [phase EXCEPT ![running] = "catch"]
                  /\ UNCHANGED <<thrown, settled, microtasks, running, dispatched>>
     \/ /\ running \in tmpFiles
        /\ thrown' = [thrown EXCEPT ![running] = "unlink"]
        /\ phase' = [phase EXCEPT ![running] = "catch"]
        /\ UNCHANGED <<tmpFiles, settled, microtasks, running, dispatched>>
  /\ UNCHANGED <<rstFiles, concurrency, pc, i, batch, results, completed,
                 warnings, convertedFiles>>

\* catch (error) { throw new Error('Pandoc conversion failed ...') }, caught
\* in convertRstToMarkdownAsync, which rejects its promise.
CatchStep ==
  /\ running # 0
  /\ phase[running] = "catch"
  /\ Suspend(running, thrown[running])
  /\ UNCHANGED <<rstFiles, concurrency, pc, i, batch, thrown, tmpFiles, results,
                 completed, warnings, convertedFiles>>

\* batch.map has returned; await Promise.all(batchPromises) yields the thread.
MapDone ==
  /\ pc = "map"
  /\ running = 0
  /\ dispatched = Len(batch)
  /\ pc' = "await"
  /\ UNCHANGED <<rstFiles, concurrency, i, batch, dispatched, running, phase, thrown,
                 settled, tmpFiles, microtasks, results, completed, warnings,
                 convertedFiles>>

\* The continuation of one callback after its await: the try branch stores
\* the content, the catch branch warns; both count the document.
Continuation ==
  /\ pc = "await"
  /\ microtasks # <<>>
  /\ LET d == Head(microtasks)
         globalIndex == GlobalIndex(i, BatchIndexOf(d))
     IN
       /\ microtasks' = Tail(microtasks)
       /\ phase' = [phase EXCEPT ![d] = "done"]
       /\ completed' = completed + 1
       /\ IF settled[d] = "resolved"
            THEN /\ results' = IF TrimIsNonEmpty(Content(rstFiles[d]))
                                 THEN [results EXCEPT ![globalIndex + 1] = Content(rstFiles[d])]
                                 ELSE results
                 /\ UNCHANGED warnings
            ELSE /\ warnings' = [warnings EXCEPT ![d] = @ + 1]
                 /\ UNCHANGED results
  /\ UNCHANGED <<rstFiles, concurrency, pc, i, batch, dispatched, running, thrown,
                 settled, tmpFiles, convertedFiles>>

\* Promise.all resolves once every callback of the batch returned: i += concurrency.
BatchDone ==
  /\ pc = "await"
  /\ microtasks = <<>>
  /\ i' = i + concurrency
  /\ pc' = "loop"
  /\ UNCHANGED <<rstFiles, concurrency, batch, dispatched, running, phase, thrown,
                 settled, tmpFiles, microtasks, results, completed, warnings,
                 convertedFiles>>

\* this.convertedFiles = results.filter(...)
CollectResults ==
  /\ pc = "filter"
  /\ convertedFiles' = FilterResults(results)
  /\ pc' = "done"
  /\ UNCHANGED <<rstFiles, concurrency, i, batch, dispatched, running, phase, thrown,
                 settled, tmpFiles, microtasks, results, completed, warnings>>

OrchNext ==
  \/ LoopTest
  \/ StartDoc
  \/ ReadSource
  \/ WriteTemp
  \/ RunPandoc
  \/ CleanupStep
  \/ FinallyStep
  \/ CatchStep
  \/ MapDone
  \/ Continuation
  \/ BatchDone
  \/ CollectResults

\* ---------------------------------------------------- reconstructTables
\* A line of cleaned Markdown: a level-2 heading '## <text>', a property
\* declaration '<type> **<name>**[ = `<def>`]', a method declaration
\* '`<ret>` **<name>**(<params>)', or prose. The texts of a method's return
\* type and parameters are lists of tokens.
NoDefault == "undefined"

MdLine(kind, text, type, name, def, ret, params) ==
  [kind |-> kind, text |-> text, type |-> type, name |-> name, def |-> def,
   ret |-> ret, params |-> params]

Heading(text) == MdLine("h2", text, "", "", NoDefault, <<>>, <<>>)
PropertyLine(type, name, def) == MdLine("prop", "", type, name, def, <<>>, <<>>)
MethodLine(ret, name, params) == MdLine("method", "", "", name, NoDefault, ret, params)
Prose == MdLine("prose", "", "", "", NoDefault, <<>>, <<>>)
EmptyLine == MdLine("blank", "", "", "", NoDefault, <<>>, <<>>)

\* Lines the reconstruction adds: the two header lines of a table and a row.
TableLine(kind) == MdLine(kind, "", "", "", NoDefault, <<>>, <<>>)
\* `| ${prop.type} | **${prop.name}** | ${prop.defaultValue || ''} |`
PropertyRow(prop) ==
  MdLine("prow", "", prop.type, prop.name,
         IF prop.defaultValue = NoDefault THEN "" ELSE prop.defaultValue, <<>>, <<>>)
\* `| ${method.returnType} | ${method.signature} |`
MethodRow(method) ==
  MdLine("mrow", "", "", method.name, NoDefault, method.returnType, method.params)

\* The documents: the 'Properties' and 'Methods' headings, after an optional
\* line of prose and with an optional blank line between them, followed by up
\* to MaxTail lines.
P1 == PropertyLine("Vector2", "global_position", "Vector2(0, 0)")
P2 == PropertyLine("float", "rotation", NoDefault)
M1 == MethodLine(<<"void", " ", "(", "No return value.", ")">>, "apply_scale",
                 <<"ratio: Vector2">>)
\* '`Vector2` **get_scale**(v: Vector2 = Vector2(0, 0))': a parameter default
\* with parentheses of its own.
M2 == MethodLine(<<"Vector2">>, "get_scale",
                 <<"v: Vector2 = Vector2", "(", "0, 0", ")">>)

TableHeads ==
  { <<Heading("Properties"), Heading("Methods")>>,
    <<Prose, Heading("Properties"), Heading("Methods")>>,
    <<Heading("Properties"), EmptyLine, Heading("Methods")>> }

TailLines ==
  { Heading("Property Descriptions"), Heading("Method Descriptions"),
    Heading("Signals"), P1, P2, M1, M2, Prose, EmptyLine }

\* line.trim() === '## <text>'
IsHeading(line, text) == line.kind = "h2" /\ line.text = text
\* line.startsWith('## ')
StartsLevel2(line) == line.kind = "h2"

\* line.match(/^(\w+(?:\d+D?)?)\s+\*\*([a-zA-Z_][a-zA-Z0-9_]*)\*\*(?:\s*=\s*`([^`]+)`)?/)
PropertyMatches(line) == line.kind = "prop"
PropertyOf(line) == [type |-> line.type, name |-> line.name, defaultValue |-> line.def]

\* First index >= from of a line with the given heading, 0 if there is none
\* (the source's -1).
RECURSIVE FindHeading(_, _, _)
FindHeading(lines, from, text) ==
  IF from > Len(lines) THEN 0
  ELSE IF IsHeading(lines[from], text) THEN from
  ELSE FindHeading(lines, from + 1, text)

\* The parse loop of extractPropertiesTable from index at: it stops at a
\* level-2 heading other than 'Property Descriptions'.
StopsAt(line, own) == StartsLevel2(line) /\ ~IsHeading(line, own)

RECURSIVE ParseProperties(_, _)
ParseProperties(lines, at) ==
  IF at > Len(lines) THEN <<>>
  ELSE IF StopsAt(lines[at], "Property Descriptions") THEN <<>>
  ELSE IF PropertyMatches(lines[at])
    THEN <<PropertyOf(lines[at])>> \o ParseProperties(lines, at + 1)
  ELSE ParseProperties(lines, at + 1)

Null == <<>>

\* extractPropertiesTable(lines, startIndex): null, or the lines of the table.
ExtractPropertiesTable(lines, startIndex) ==
  LET propertyDescIndex == FindHeading(lines, startIndex, "Property Descriptions")
      properties == IF propertyDescIndex = 0 THEN <<>>
                    ELSE ParseProperties(lines, propertyDescIndex + 1)
  IN  IF propertyDescIndex = 0 \/ Len(properties) = 0 THEN Null
      ELSE <<TableLine("phead"), TableLine("psep")>>
             \o [x \in 1..Len(properties) |-> PropertyRow(properties[x])]

\* Index of the first token tok at or after from, 0 if there is none.
RECURSIVE IndexOfToken(_, _, _)
IndexOfToken(s, tok, from) ==
  IF from > Len(s) THEN 0
  ELSE IF s[from] = tok THEN from
  ELSE IndexOfToken(s, tok, from + 1)

\* String.prototype.trim on a list of tokens.
RECURSIVE TrimTokens(_)
TrimTokens(s) ==
  IF s = <<>> THEN s
  ELSE IF Head(s) = " " THEN TrimTokens(Tail(s))
  ELSE IF s[Len(s)] = " " THEN TrimTokens(SubSeq(s, 1, Len(s) - 1))
  ELSE s

\* Number of blank tokens that end s.
RECURSIVE TrailingBlanks(_)
TrailingBlanks(s) ==
  IF s = <<>> \/ s[Len(s)] # " " THEN 0
  ELSE 1 + TrailingBlanks(SubSeq(s, 1, Len(s) - 1))

\* Number of blank tokens that start s.
RECURSIVE LeadingBlanks(_)
LeadingBlanks(s) ==
  IF s = <<>> \/ Head(s) # " " THEN 0
  ELSE 1 + LeadingBlanks(Tail(s))

\* returnType.replace(/\s*\(.*?\)\s*/, '').trim() || 'void': the first
\* parenthesised part goes, with the blanks around it.
CleanReturnType(returnType) ==
  LET open == IndexOfToken(returnType, "(", 1)
      close == IF open = 0 THEN 0 ELSE IndexOfToken(returnType, ")", open + 1)
      before == SubSeq(returnType, 1, open - 1)
      after == SubSeq(returnType, close + 1, Len(returnType))
      replaced ==
        IF open = 0 \/ close = 0 THEN returnType
        ELSE SubSeq(before, 1, Len(before) - TrailingBlanks(before))
               \o SubSeq(after, LeadingBlanks(after) + 1, Len(after))
      trimmed == TrimTokens(replaced)
  IN  IF trimmed = <<>> THEN <<"void">> ELSE trimmed

\* line.match(/^`([^`]+)`\s+\*\*([a-zA-Z_][a-zA-Z0-9_]*)\*\*\s*\(([^)]*)\)/):
\* the parameters captured end before the first ')' after the opening one.
MethodMatches(line) == line.kind = "method"
MethodOf(line) ==
  LET text == line.params \o <<")">>
      close == IndexOfToken(text, ")", 1)
  IN  [returnType |-> CleanReturnType(line.ret), name |-> line.name,
       params |-> SubSeq(text, 1, close - 1)]

RECURSIVE ParseMethods(_, _)
ParseMethods(lines, at) ==
  IF at > Len(lines) THEN <<>>
  ELSE IF StopsAt(lines[at], "Method Descriptions") THEN <<>>
  ELSE IF MethodMatches(lines[at])
    THEN <<MethodOf(lines[at])>> \o ParseMethods(lines, at + 1)
  ELSE ParseMethods(lines, at + 1)

\* extractMethodsTable(lines, startIndex): null, or the lines of the table.
ExtractMethodsTable(lines, startIndex) ==
  LET methodDescIndex == FindHeading(lines, startIndex, "Method Descriptions")
      methods == IF methodDescIndex = 0 THEN <<>>
                 ELSE ParseMethods(lines, methodDescIndex + 1)
  IN  IF methodDescIndex = 0 \/ Len(methods) = 0 THEN Null
      ELSE <<TableLine("mhead"), TableLine("msep")>>
             \o [x \in 1..Len(methods) |-> MethodRow(methods[x])]

\* result.push(line), then '' / table / '' when a table was extracted.
WithTableNoBlankAfter(line, table) ==
  IF table # Null THEN <<<<line>>, <<EmptyLine>>, table>>
  ELSE <<<<line>>>>

WithTable(line, table) ==
  IF table # Null THEN <<<<line>>, <<EmptyLine>>, table, <<EmptyLine>>>>
  ELSE <<<<line>>>>

\* First index at or after from of a line that is not a blank line; past the
\* end if there is none.
RECURSIVE SkipBlankLines(_, _)
SkipBlankLines(lines, from) ==
  IF from > Len(lines) THEN from
  ELSE IF lines[from] # EmptyLine THEN from
  ELSE SkipBlankLines(lines, from + 1)

EmptySectionSkippingBlanks(lines, at, text, next) ==
  /\ IsHeading(lines[at], text)
  /\ SkipBlankLines(lines, at + 1) <= Len(lines)
  /\ IsHeading(lines[SkipBlankLines(lines, at + 1)], next)

\* line.trim() === '## <text>' && i + 1 < lines.length &&
\* lines[i + 1].trim() === '## <next>'
EmptySection(lines, at, text, next) ==
  /\ IsHeading(lines[at], text)
  /\ at + 1 <= Len(lines)
  /\ IsHeading(lines[at + 1], next)

\* The while loop of reconstructTables from index at: the elements pushed.
RECURSIVE ReconstructFrom(_, _)
ReconstructFrom(lines, at) ==
  IF at > Len(lines) THEN <<>>
  ELSE IF EmptySection(lines, at, "Properties", "Methods")
    THEN WithTable(lines[at], ExtractPropertiesTable(lines, at))
           \o ReconstructFrom(lines, at + 1)
  ELSE IF EmptySection(lines, at, "Methods", "Property Descriptions")
    THEN WithTable(lines[at], ExtractMethodsTable(lines, at))
           \o ReconstructFrom(lines, at + 1)
  ELSE <<<<lines[at]>>>> \o ReconstructFrom(lines, at + 1)

\* result.join('\n'), as the lines of the joined text.
RECURSIVE JoinLines(_)
JoinLines(elements) ==
  IF elements = <<>> THEN <<>> ELSE Head(elements) \o JoinLines(Tail(elements))

TableIdle ==
  /\ mdLines = <<>>
  /\ tpc = "idle"
  /\ result = <<>>
  /\ reconstructed = <<>>

TableInit ==
  /\ mdLines \in {h \o t : h \in TableHeads,
                          t \in UNION {[1..n -> TailLines] : n \in 0..MaxTail}}
  /\ tpc = "input"
  /\ result = <<>>
  /\ reconstructed = <<>>

\* content = this.reconstructTables(content)
ApplyReconstruct ==
  /\ tpc = "input"
  /\ result' = ReconstructFrom(mdLines, 1)
  /\ reconstructed' = JoinLines(ReconstructFrom(mdLines, 1))
  /\ tpc' = "done"
  /\ UNCHANGED mdLines

\* ------------------------------------------------------- cleanupForLLM
\* The cleaner on a text given as its lines. Besides the lines above a text
\* holds lines of plain text, given by their characters: "a" a word
\* character, " " and "\t" blanks, "**" a bold marker; and code fence lines.
\* No rewrite rule of the cascade other than those below matches a line of
\* these documents.
Text(tokens) == MdLine("text", "", "", "", NoDefault, tokens, <<>>)
Fence == MdLine("fence", "", "", "", NoDefault, <<>>, <<>>)
\* The newline character between two lines of a text.
NL == MdLine("nl", "", "", "", NoDefault, <<>>, <<>>)

IsBlankToken(tok) == tok \in {" ", "\t"}

\* The line holding the given characters.
LineOf(tokens) == IF tokens = <<>> THEN EmptyLine ELSE Text(tokens)

\* line.trim().length === 0
IsBlankLine(line) ==
  \/ line = EmptyLine
  \/ line.kind = "text" /\ \A x \in DOMAIN line.ret : IsBlankToken(line.ret[x])

\* lines.join('\n'): the text as its non-empty lines and newline characters.
RECURSIVE JoinNL(_)
JoinNL(lines) ==
  IF lines = <<>> THEN <<>>
  ELSE LET first == IF Head(lines) = EmptyLine THEN <<>> ELSE <<Head(lines)>>
       IN  IF Len(lines) = 1 THEN first
           ELSE first \o <<NL>> \o JoinNL(Tail(lines))

\* content.split('\n')
RECURSIVE SplitNL(_)
SplitNL(text) ==
  LET n == IndexOfToken(text, NL, 1)
  IN  IF n = 0 THEN <<IF text = <<>> THEN EmptyLine ELSE text[1]>>
      ELSE <<IF n = 1 THEN EmptyLine ELSE text[1]>>
             \o SplitNL(SubSeq(text, n + 1, Len(text)))

\* Number of newline characters that start text.
RECURSIVE LeadingNewlines(_)
LeadingNewlines(text) ==
  IF text = <<>> \/ Head(text) # NL THEN 0 ELSE 1 + LeadingNewlines(Tail(text))

\* .replace(/\n{3,}/g, '\n\n')
RECURSIVE CollapseNewlines(_)
CollapseNewlines(text) ==
  IF text = <<>> THEN <<>>
  ELSE IF Head(text) # NL THEN <<Head(text)>> \o CollapseNewlines(Tail(text))
  ELSE LET k == LeadingNewlines(text)
       IN  (IF k >= 3 THEN <<NL, NL>> ELSE SubSeq(text, 1, k))
             \o CollapseNewlines(SubSeq(text, k + 1, Len(text)))

\* First index at or after from of a line that is not blank; past the end if
\* there is none.
RECURSIVE NextNonBlank(_, _)
NextNonBlank(lines, from) ==
  IF from > Len(lines) THEN from
  ELSE IF ~IsBlankLine(lines[from]) THEN from
  ELSE NextNonBlank(lines, from + 1)

\* The line starts with a character that is not a blank.
StartsNonBlank(line) ==
  line.kind # "text" \/ ~IsBlankToken(line.ret[1])

\* .replace(/(#{1,6}[^\n]*)\n\s*\n(?=\S)/g, '$1\n\n'): the blank lines
\* between a heading and a following unindented line become one empty line.
RECURSIVE HeadingSpacing(_, _)
HeadingSpacing(lines, at) ==
  IF at > Len(lines) THEN <<>>
  ELSE LET j == NextNonBlank(lines, at + 1)
       IN  IF /\ lines[at].kind = "h2"
              /\ j > at + 1
              /\ j <= Len(lines)
              /\ StartsNonBlank(lines[j])
             THEN <<lines[at], EmptyLine>> \o HeadingSpacing(lines, j)
             ELSE <<lines[at]>> \o HeadingSpacing(lines, at + 1)

\* .replace(/[ \t]+/g, ' ') on the characters of one line.
RECURSIVE CollapseBlanks(_)
CollapseBlanks(tokens) ==
  IF tokens = <<>> THEN <<>>
  ELSE IF IsBlankToken(Head(tokens))
    THEN IF Len(tokens) > 1 /\ IsBlankToken(tokens[2])
           THEN CollapseBlanks(Tail(tokens))
           ELSE <<" ">> \o CollapseBlanks(Tail(tokens))
  ELSE <<Head(tokens)>> \o CollapseBlanks(Tail(tokens))

\* .replace(/(\w)(\*\*\w)/g, '$1 $2') on the characters of one line: the
\* search goes on after the end of each match.
RECURSIVE RepairMashed(_)
RepairMashed(tokens) ==
  IF tokens = <<>> THEN <<>>
  ELSE IF Len(tokens) >= 3 /\ tokens[1] = "a" /\ tokens[2] = "**" /\ tokens[3] = "a"
    THEN <<"a", " ", "**", "a">> \o RepairMashed(SubSeq(tokens, 4, Len(tokens)))
  ELSE <<Head(tokens)>> \o RepairMashed(Tail(tokens))

\* The two rewrites of characters applied to every line of plain text.
CollapseBlanksIn(lines) ==
  [x \in DOMAIN lines |->
     IF lines[x].kind = "text" THEN LineOf(CollapseBlanks(lines[x].ret)) ELSE lines[x]]

RepairMashedIn(lines) ==
  [x \in DOMAIN lines |->
     IF lines[x].kind = "text" THEN LineOf(RepairMashed(lines[x].ret)) ELSE lines[x]]

\* .trim() of the whole text: the blank lines that start and end it go, and
\* the blanks that start its first line and end its last line.
RECURSIVE TrimStart(_)
TrimStart(lines) ==
  IF lines = <<>> THEN <<>>
  ELSE IF IsBlankLine(Head(lines)) THEN TrimStart(Tail(lines))
  ELSE LET first == Head(lines)
       IN  IF first.kind = "text"
             THEN <<Text(SubSeq(first.ret, LeadingBlanks(first.ret) + 1, Len(first.ret)))>>
                    \o Tail(lines)
             ELSE lines

RECURSIVE TrimEnd(_)
TrimEnd(lines) ==
  IF lines = <<>> THEN <<>>
  ELSE IF IsBlankLine(lines[Len(lines)]) THEN TrimEnd(SubSeq(lines, 1, Len(lines) - 1))
  ELSE LET last == lines[Len(lines)]
       IN  IF last.kind = "text"
             THEN SubSeq(lines, 1, Len(lines) - 1)
                    \o <<Text(SubSeq(last.ret, 1, Len(last.ret) - TrailingBlanks(last.ret)))>>
             ELSE lines

TrimText(lines) ==
  LET trimmed == TrimEnd(TrimStart(lines))
  IN  IF trimmed = <<>> THEN <<EmptyLine>> ELSE trimmed

\* The filter of the lines: trimmed.length > 0
KeepLine(line) == ~IsBlankLine(line)

\* cleanupForLLM(content): the first chain of rewrites, the second chain with
\* the filter of the lines, then the reconstruction of the tables.
CleanupForLLM(lines) ==
  LET spaced == HeadingSpacing(lines, 1)
      paragraphs == SplitNL(CollapseNewlines(JoinNL(spaced)))
      collapsed == CollapseBlanksIn(paragraphs)
      first == TrimText(collapsed)
      repaired == RepairMashedIn(first)
      kept == SelectSeq(repaired, KeepLine)
      second == TrimText(SplitNL(CollapseNewlines(JoinNL(kept))))
  IN  JoinLines(ReconstructFrom(second, 1))

\* The converter outputs: one to MaxClean lines.
CleanLines ==
  { Heading("Properties"), Heading("Methods"), Heading("Property Descriptions"),
    P1, Fence, EmptyLine,
    Text(<<"a", "**", "a", "**", "a">>), Text(<<" ", " ", "a">>),
    Text(<<"a", "\t", "a">>), Text(<<" ">>) }

CleanIdle ==
  /\ converted = <<>>
  /\ cpc = "idle"
  /\ cleaned = <<>>
  /\ recleaned = <<>>

CleanInit ==
  /\ converted \in UNION {[1..n -> CleanLines] : n \in 1..MaxClean}
  /\ cpc = "input"
  /\ cleaned = <<>>
  /\ recleaned = <<>>

\* markdownContent = this.cleanupForLLM(markdownContent)
ApplyCleanup ==
  /\ cpc = "input"
  /\ cleaned' = CleanupForLLM(converted)
  /\ cpc' = "cleaned"
  /\ UNCHANGED <<converted, recleaned>>

\* The cleaner applied to its own output.
ApplyCleanupAgain ==
  /\ cpc = "cleaned"
  /\ recleaned' = CleanupForLLM(cleaned)
  /\ cpc' = "recleaned"
  /\ UNCHANGED <<converted, cleaned>>

\* ----------------------------------------------------------- configuration
\* An object is the set of the keys it has and a value for each key; a key it
\* does not have reads as undefined. Of ConverterConfig the options
\* concurrency, language and git are followed (excludedDirectories,
\* godotDocsPath and outputFile are merged the same way as the first two).
TopKeys == {"concurrency", "language", "git"}
GitKeys == {"enabled", "repository", "branch", "autoUpdate"}

Obj(keys, val) == [keys |-> keys, val |-> val]

\* The git section of the field initializer of config.
DefaultGitVal ==
  [enabled |-> TRUE, repository |-> "godotengine/godot-docs",
   branch |-> "master", autoUpdate |-> TRUE]
\* The values a custom git section gives to the keys it lists.
CustomGitVal ==
  [enabled |-> FALSE, repository |-> "fork/godot-docs",
   branch |-> "4.2-stable", autoUpdate |-> FALSE]

\* The field initializer of config.
DefaultConfig ==
  Obj(TopKeys, [concurrency |-> 5, language |-> "both",
                git |-> Obj(GitKeys, DefaultGitVal)])

\* A git section that lists the given keys.
PartialGit(keys) ==
  Obj(keys, [f \in GitKeys |-> IF f \in keys THEN CustomGitVal[f] ELSE DefaultGitVal[f]])

\* The partial configurations: any of the options, with any part of the git
\* section. The one without keys also stands for no argument at all.
PartialConfigs ==
  { Obj(keys, [concurrency |-> IF "concurrency" \in keys THEN 10 ELSE 5,
               language |-> IF "language" \in keys THEN "gdscript" ELSE "both",
               git |-> IF "git" \in keys THEN PartialGit(gitKeys)
                       ELSE Obj(GitKeys, DefaultGitVal)]) :
      keys \in SUBSET TopKeys, gitKeys \in SUBSET GitKeys }

\* { ...a, ...b } and Object.assign(a, b): the keys of both, the value of b
\* for each key b has. A nested object is taken over whole.
Spread(a, b) ==
  Obj(a.keys \cup b.keys,
      [k \in DOMAIN a.val |-> IF k \in b.keys THEN b.val[k] ELSE a.val[k]])

\* Object.assign(this.config, newConfig)
Assign(a, b) == Spread(a, b)

\* The constructor: this.config = { ...this.config, ...customConfig }, then
\* this.config.git = { ...this.config.git, ...customConfig.git } when the
\* custom configuration has a git section; this.config.git is read after the
\* first assignment.
Constructed(custom) ==
  LET merged == Spread(DefaultConfig, custom)
  IN  IF "git" \in custom.keys
        THEN Obj(merged.keys,
                 [merged.val EXCEPT !.git = Spread(merged.val.git, custom.val.git)])
        ELSE merged

ConfigIdle ==
  /\ config = DefaultConfig
  /\ kpc = "idle"
  /\ customConfig = Obj({}, DefaultConfig.val)
  /\ newConfig = Obj({}, DefaultConfig.val)
  /\ previous = DefaultConfig
  /\ updates = 0

\* new GodotDocsConverter(customConfig) is about to run its constructor.
ConfigInit ==
  /\ config = DefaultConfig
  /\ kpc = "new"
  /\ customConfig \in PartialConfigs
  /\ newConfig = Obj({}, DefaultConfig.val)
  /\ previous = DefaultConfig
  /\ updates = 0

\* constructor(customConfig)
Construct ==
  /\ kpc = "new"
  /\ config' = Constructed(customConfig)
  /\ kpc' = "constructed"
  /\ UNCHANGED <<customConfig, newConfig, previous, updates>>

\* updateConfig(newConfig), as main calls it with the configuration file.
UpdateConfig ==
  /\ kpc \in {"constructed", "updated"}
  /\ updates < MaxUpdates
  /\ \E fileConfig \in PartialConfigs :
       /\ newConfig' = fileConfig
       /\ config' = Assign(config, fileConfig)
  /\ previous' = config
  /\ updates' = updates + 1
  /\ kpc' = "updated"
  /\ UNCHANGED customConfig

\* ------------------------------------------------- orchestrator: claims
\* A document's processing succeeded: its chain and callback ended without error.
Succeeded(d) == phase[d] = "done" /\ thrown[d] = "none"

\* A document's processing failed: some step of its chain raised.
Failed(d) == thrown[d] # "none"

\* Position in the input list of the document a content string belongs to.
InputPos(content) == CHOOSE d \in Docs : Content(rstFiles[d]) = content

\* Started and not yet finished: the callback was invoked and has not returned.
InFlight == {d \in Docs : phase[d] \notin {"idle", "done"}}

\* The consecutive chunk of size `concurrency` a document lies in (0-based).
Chunk(d) == (d - 1) \div concurrency

\* The external converter was invoked for the document.
ReachedConverter(d) ==
  \/ phase[d] \in {"exec", "cleanup", "finally"}
  \/ phase[d] \in {"catch", "awaiting", "done"} /\ thrown[d] \notin {"read", "write"}

\* C1: the output lists only successfully processed documents, and any two of
\* them stand in the output in the order they have in the input list.
C1_OrderPreserved ==
  /\ \A x \in DOMAIN convertedFiles :
       \E d \in Docs : Succeeded(d) /\ convertedFiles[x] = Content(rstFiles[d])
  /\ \A x, y \in DOMAIN convertedFiles :
       x < y => InputPos(convertedFiles[x]) < InputPos(convertedFiles[y])

\* C1 witness: a finished run over two batches whose output holds documents of
\* both batches, with a failed document between two successful ones.
C1_Witness ==
  /\ pc = "done"
  /\ concurrency = 2
  /\ Len(rstFiles) >= 3
  /\ Failed(2)
  /\ Len(convertedFiles) = Len(rstFiles) - 1

\* C2: a failing document never stops the run: the run is never stuck before
\* its end, and at its end every document was attempted, every document that
\* did not fail is in the output exactly once, no failed document is in the
\* output, and each failed document has exactly one warning (the others none).
C2_FailureIsolated ==
  /\ pc = "done" \/ ENABLED OrchNext
  /\ \A d \in Docs : warnings[d] <= 1
  /\ pc = "done" =>
       \A d \in Docs :
         /\ phase[d] = "done"
         /\ Cardinality({x \in DOMAIN convertedFiles :
                           convertedFiles[x] = Content(rstFiles[d])})
              = (IF Failed(d) THEN 0 ELSE 1)
         /\ warnings[d] = (IF Failed(d) THEN 1 ELSE 0)

\* C2 witness: a finished run in which the third document failed inside a
\* batch of three and all the others are in the output.
C2_Witness ==
  /\ pc = "done"
  /\ concurrency = 3
  /\ Len(rstFiles) >= 4
  /\ Failed(3)
  /\ warnings[3] = 1
  /\ \A d \in Docs \ {3} : ~Failed(d)
  /\ Len(convertedFiles) = Len(rstFiles) - 1

\* C3: at most `concurrency` documents are in flight, the batches are the
\* consecutive chunks of size `concurrency`, and a document is started only
\* when every document of the earlier chunks has finished.
C3_BoundedBatches ==
  /\ Cardinality(InFlight) <= concurrency
  /\ pc \in {"map", "await"} =>
       /\ i % concurrency = 0
       /\ Range(batch) = {d \in Docs : Chunk(d) = i \div concurrency}
       /\ InFlight \subseteq Range(batch)
  /\ \A d, e \in Docs :
       (Chunk(d) < Chunk(e) /\ phase[e] # "idle") => phase[d] = "done"

\* C3 witness: a full batch of two or more documents is in flight in a later
\* chunk, after the first chunk has finished.
C3_Witness ==
  /\ concurrency >= 2
  /\ Cardinality(InFlight) = concurrency
  /\ \E e \in InFlight : Chunk(e) >= 1
  /\ \E d \in Docs : Failed(d) /\ phase[d] = "done"

\* C4: the documents of a batch are processed concurrently: when a document of
\* the batch is started, the external conversion of every document of the
\* batch started before it is still running, so the conversions of a batch
\* overlap and may complete in any order.
C4_BatchConcurrent ==
  \A d, e \in Docs :
    (pc = "map" /\ d # e /\ d \in Range(batch) /\ e \in Range(batch)
       /\ phase[e] = "read" /\ ReachedConverter(d) /\ thrown[d] = "none")
      => phase[d] = "exec"

\* What the code does instead (C4): execSync blocks the only thread, so no
\* document is started or resumed while a conversion is running.
ConversionsAreSerial ==
  \A d \in Docs :
    phase[d] = "exec" =>
      /\ running = d
      /\ \A e \in Docs \ {d} : phase[e] \in {"idle", "awaiting", "done"}
      /\ \A e \in Range(batch) : e < d => phase[e] = "awaiting"

\* C5: on each listed exit path of a document's processing (success, converter
\* failure, cleanup failure, scratch-file write failure) its scratch file no
\* longer exists.
C5_ScratchFileRemoved ==
  \A d \in Docs :
    (phase[d] \in {"awaiting", "done"}
       /\ thrown[d] \in {"none", "pandoc", "cleanup", "write"})
      => d \notin tmpFiles

\* What the code guarantees (C5): the scratch file is gone on every exit path
\* that passed the finally block with a successful unlink.
ScratchRemovedAfterFinally ==
  \A d \in Docs :
    (phase[d] \in {"awaiting", "done"} /\ thrown[d] \in {"none", "pandoc", "cleanup"})
      => d \notin tmpFiles

\* ceil(n / k) for k > 0.
Ceil(n, k) == (n + k - 1) \div k

\* The number of batches started: i advances by `concurrency` from 0 each time
\* a batch has been drained, and one more batch is under way between the slice
\* and the end of its Promise.all.
BatchesStarted ==
  IF pc \in {"map", "await"} THEN i \div concurrency + 1 ELSE i \div concurrency

\* convertFilesConcurrently has returned having started ceil(n/k) batches and
\* counted every document, each of them processed to its end.
Terminated ==
  /\ pc = "done"
  /\ BatchesStarted = Ceil(Len(rstFiles), concurrency)
  /\ completed = Len(rstFiles)
  /\ \A d \in Docs : phase[d] = "done"

\* C19: for every list of n documents and every concurrency k >= 1, with each
\* step of a conversion returning or failing, convertFilesConcurrently
\* terminates, having started exactly ceil(n/k) batches and counted n
\* documents; and each document is attempted once: its processing starts only
\* when it has not started before.
C19_TerminatesAfterCeilBatches ==
  /\ <>[]Terminated
  /\ [][\A d \in Docs : (phase'[d] = "read" /\ phase[d] # "read") => phase[d] = "idle"]_vars
  /\ [][\A d \in Docs : phase[d] # "idle" => phase'[d] # "idle"]_vars
  /\ [](BatchesStarted <= Ceil(Len(rstFiles), concurrency))

\* C19 witness: four documents with concurrency three are done in two
\* batches, the second one partial, one document having failed.
C19_Witness ==
  /\ Terminated
  /\ Len(rstFiles) = 4
  /\ concurrency = 3
  /\ i = 6
  /\ \E d \in Docs : Failed(d)

\* ------------------------------------------------------ filterByLanguage
\* A line is its indentation (line.length - line.trimStart().length) and what
\* its trimmed text is: the tab-block directive '.. tabs::', a code-tab
\* directive '.. code-tab:: <declares> <title>' (names: the language names
\* that occur anywhere in the line), another directive ('.. note::'), text,
\* or a blank line.
Line(kind, indent, declares, names) ==
  [kind |-> kind, indent |-> indent, declares |-> declares, names |-> names]

TabsLine(indent) == Line("tabs", indent, "", {})
CodeTabLine(indent, declares, names) == Line("code-tab", indent, declares, names)
DirectiveLine(indent) == Line("directive", indent, "", {})
TextLine(indent) == Line("text", indent, "", {})
BlankLine == Line("blank", 0, "", {})

\* The lines documents are drawn from: '.. tabs::', '.. code-tab:: gdscript',
\* '.. code-tab:: csharp', '.. code-tab:: csharp C# (gdscript port)',
\* '.. note::' at the margin, text at the margin and indented (prose, code or
\* a nested directive: inside a block at the margin the scanner treats every
\* indented non-code-tab line alike), and the empty line.
FilterLines ==
  { TabsLine(0),
    CodeTabLine(1, "gdscript", {"gdscript"}),
    CodeTabLine(1, "csharp", {"csharp"}),
    CodeTabLine(1, "csharp", {"csharp", "gdscript"}),
    DirectiveLine(0),
    TextLine(0), TextLine(1),
    BlankLine }

Languages == {"gdscript", "csharp", "both"}

\* trimmed === '.. tabs::'
IsTabsDirective(line) == line.kind = "tabs"
\* trimmed.startsWith('..')
StartsWithDotDot(line) == line.kind \in {"tabs", "code-tab", "directive"}
\* trimmed.startsWith('.. code-tab::')
StartsWithCodeTab(line) == line.kind = "code-tab"
\* trimmed.length > 0
IsNonBlank(line) == line.kind # "blank"
\* line.length - line.trimStart().length
IndentOf(line) == line.indent
\* trimmed.includes(targetLanguage): a substring test on the whole line
Includes(line, lang) == lang \in line.names

\* this.config.language === 'gdscript' ? 'gdscript' : 'csharp'
TargetLanguage(lang) == IF lang = "gdscript" THEN "gdscript" ELSE "csharp"

\* The scanner's locals before the first line.
ScanStart ==
  [insideTabsBlock |-> FALSE, insideTargetCodeTab |-> FALSE,
   insideOtherCodeTab |-> FALSE, tabsDepth |-> 0,
   filteredLines |-> <<>>, kept |-> <<>>]

\* filteredLines.push(line)
PushTrimmed(st, line, idx) ==
  [st EXCEPT !.filteredLines = Append(@, [line EXCEPT !.indent = 0]),
             !.kept = Append(@, idx)]

Push(st, line, idx) ==
  [st EXCEPT !.filteredLines = Append(@, line), !.kept = Append(@, idx)]

\* The '.. tabs::' branch: the block opens, the directive line is pushed, and
\* the code-tab flags are left as they are.
OnTabsDirectiveDropped(st, line, idx) ==
  [st EXCEPT !.insideTabsBlock = TRUE, !.tabsDepth = IndentOf(line)]
OnTabsDirective(st, line, idx) ==
  Push([st EXCEPT !.insideTabsBlock = TRUE, !.tabsDepth = IndentOf(line)], line, idx)

\* The block-exit branch.
OnBlockExit(st, line, idx) ==
  Push([st EXCEPT !.insideTabsBlock = FALSE, !.insideTargetCodeTab = FALSE,
                  !.insideOtherCodeTab = FALSE], line, idx)

\* The code-tab branch: the directive line itself is never pushed.
OnCodeTab(st, line, lang) ==
  IF Includes(line, TargetLanguage(lang))
    THEN [st EXCEPT !.insideTargetCodeTab = TRUE, !.insideOtherCodeTab = FALSE]
    ELSE [st EXCEPT !.insideTargetCodeTab = FALSE, !.insideOtherCodeTab = TRUE]

\* One iteration of the for loop over the lines.
ScanStep(st, line, idx, lang) ==
  IF IsTabsDirective(line) THEN OnTabsDirective(st, line, idx)
  ELSE IF st.insideTabsBlock THEN
    IF IsNonBlank(line) /\ IndentOf(line) <= st.tabsDepth /\ ~StartsWithDotDot(line)
      THEN OnBlockExit(st, line, idx)
    ELSE IF StartsWithCodeTab(line) THEN OnCodeTab(st, line, lang)
    ELSE IF st.insideTargetCodeTab THEN Push(st, line, idx)
    ELSE IF st.insideOtherCodeTab THEN st
    ELSE IF ~StartsWithCodeTab(line) THEN Push(st, line, idx)
    ELSE st
  ELSE Push(st, line, idx)

\* The scanner's locals after the first n lines.
RECURSIVE Scan(_, _, _)
Scan(lines, lang, n) ==
  IF n = 0 THEN ScanStart
  ELSE ScanStep(Scan(lines, lang, n - 1), lines[n], n, lang)

\* filterByLanguage without its early return for 'both'.
FilterAlwaysScans(lines, lang) == Scan(lines, lang, Len(lines))
\* filterByLanguage: the text unchanged for 'both', the scan's result otherwise.
FilterByLanguage(lines, lang) ==
  IF lang = "both"
    THEN [ScanStart EXCEPT !.filteredLines = lines,
                           !.kept = [x \in 1..Len(lines) |-> x]]
    ELSE Scan(lines, lang, Len(lines))

FilterIdle ==
  /\ rstContent = <<>>
  /\ language = "both"
  /\ fpc = "idle"
  /\ filteredLines = <<>>
  /\ keptIdx = <<>>

\* ''.split('\n') is ['']: a text has at least one line.
FilterInit ==
  /\ rstContent \in UNION {[1..n -> FilterLines] : n \in 1..MaxLines}
  /\ language \in Languages
  /\ fpc = "input"
  /\ filteredLines = <<>>
  /\ keptIdx = <<>>

\* const filteredContent = this.filterByLanguage(rstContent)
ApplyFilter ==
  /\ fpc = "input"
  /\ LET r == FilterByLanguage(rstContent, language) IN
       /\ filteredLines' = r.filteredLines
       /\ keptIdx' = r.kept
  /\ fpc' = "filtered"
  /\ UNCHANGED <<rstContent, language>>

\* ---------------------------------------------- filterByLanguage: claims
Lines == 1..Len(rstContent)
IsTabs(p) == rstContent[p].kind = "tabs"
IsCodeTab(p) == rstContent[p].kind = "code-tab"
SingleLanguage == fpc = "filtered" /\ language # "both"
OtherLanguage == IF language = "gdscript" THEN "csharp" ELSE "gdscript"

\* Input line p is in the returned text.
Kept(p) == \E x \in DOMAIN keptIdx : keptIdx[x] = p

\* Line p lies inside the tab block of the tab-block directive at line t: no
\* line from t to p opens another block, and each of them is blank or
\* indented deeper than the directive.
InBlockOf(p, t) ==
  /\ t < p
  /\ IsTabs(t)
  /\ \A q \in (t + 1)..p :
       /\ ~IsTabs(q)
       /\ ~(IsNonBlank(rstContent[q]) /\ IndentOf(rstContent[q]) <= IndentOf(rstContent[t]))

\* Line p belongs to the code tab of the code-tab directive at line c: both
\* lie in one tab block and no other code-tab directive comes between them.
BelongsToCodeTab(p, c) ==
  /\ c < p
  /\ IsCodeTab(c)
  /\ \E t \in Lines : t < c /\ InBlockOf(p, t)
  /\ \A q \in (c + 1)..p : ~IsCodeTab(q)

\* The tab-block directive line that precedes line q most closely.
LastTabsBefore(q) ==
  CHOOSE t \in Lines : t < q /\ IsTabs(t) /\ \A u \in (t + 1)..(q - 1) : ~IsTabs(u)

\* A line that closes the scanner's block: text (not blank, not starting with
\* '..') indented no deeper than the latest tab-block directive.
ClosingLine(q) ==
  /\ rstContent[q].kind = "text"
  /\ IndentOf(rstContent[q]) <= IndentOf(rstContent[LastTabsBefore(q)])

\* A tab-block directive precedes line p with no closing line in between.
BlockOpenAt(p) ==
  \E t \in Lines : t < p /\ IsTabs(t) /\ \A q \in (t + 1)..(p - 1) : ~ClosingLine(q)

\* C6: with one target language, no line of a code tab that declares the
\* other language is in the output, every line of a code tab that declares
\* the target language is, and the output lines are input lines unchanged and
\* in their original order.
C6_LanguageExclusive ==
  SingleLanguage =>
    /\ \A p, c \in Lines :
         BelongsToCodeTab(p, c) =>
           /\ rstContent[c].declares = OtherLanguage => ~Kept(p)
           /\ rstContent[c].declares = language => Kept(p)
    /\ \A x \in DOMAIN keptIdx : filteredLines[x] = rstContent[keptIdx[x]]
    /\ \A x, y \in DOMAIN keptIdx : x < y => keptIdx[x] < keptIdx[y]

C8_NoFilterIdentity ==
  (fpc = "filtered" /\ language = "both") => filteredLines = rstContent

\* C8 witness: 'both' was applied to a text with an unterminated tab block
\* that holds a code tab and code.
C8_Witness ==
  /\ fpc = "filtered"
  /\ language = "both"
  /\ Len(rstContent) >= 3
  /\ IsTabs(1)
  /\ IsCodeTab(2)
  /\ \A q \in 3..Len(rstContent) : rstContent[q] = TextLine(1)
  /\ filteredLines = rstContent

\* C9: every line inside a tab block and before the block's first code-tab
\* directive is kept, and the scanner is in no code tab when it reads it,
\* whatever came before the block.
C9_TabPreambleKept ==
  SingleLanguage =>
    \A p, t \in Lines :
      (InBlockOf(p, t) /\ \A q \in (t + 1)..p : ~IsCodeTab(q)) =>
        /\ Kept(p)
        /\ ~Scan(rstContent, language, p - 1).insideTargetCodeTab
        /\ ~Scan(rstContent, language, p - 1).insideOtherCodeTab

\* Some line of the code tab of the code-tab directive at line c is in the
\* output.
Selected(c) == \E p \in Lines : BelongsToCodeTab(p, c) /\ Kept(p)

\* C17: with one target language, the output holds lines of at most one code
\* tab of each tab block.
C17_AtMostOneTabSelected ==
  SingleLanguage =>
    \A t, c1, c2 \in Lines :
      (InBlockOf(c1, t) /\ InBlockOf(c2, t) /\ c1 # c2) =>
        ~(Selected(c1) /\ Selected(c2))

\* What the code does (C17): the code tabs with lines in the output are those
\* whose directive line holds the name of the target language, however many
\* of them the block has.
SelectedTabsNameTarget ==
  SingleLanguage =>
    \A p, c \in Lines :
      BelongsToCodeTab(p, c) =>
        (Kept(p) <=> Includes(rstContent[c], TargetLanguage(language)))

\* Two code tabs of one block that both declare the target language both have
\* their lines in the output.
TwoTabsSelected ==
  /\ SingleLanguage
  /\ language = "gdscript"
  /\ rstContent = <<TabsLine(0), CodeTabLine(1, "gdscript", {"gdscript"}), TextLine(1),
                    CodeTabLine(1, "gdscript", {"gdscript"}), TextLine(1)>>
  /\ keptIdx = <<1, 3, 5>>

\* Line p lies outside every tab block: no tab-block directive precedes it, or
\* it is not blank and indented no deeper than the one that precedes it most
\* closely.
OutsideEveryBlock(p) ==
  \/ \A t \in 1..(p - 1) : ~IsTabs(t)
  \/ /\ IsNonBlank(rstContent[p])
     /\ IndentOf(rstContent[p]) <= IndentOf(rstContent[LastTabsBefore(p)])

\* C18: with one target language, every line that lies outside every tab
\* block is in the output, a directive line starting with '..' included.
C18_OutsideBlockKept ==
  SingleLanguage => \A p \in Lines : OutsideEveryBlock(p) => Kept(p)

\* What the code does (C18): the lines outside every tab block that do not
\* start with '..', and the '.. tabs::' lines, are in the output.
OutsideBlockTextKept ==
  SingleLanguage =>
    \A p \in Lines :
      (OutsideEveryBlock(p) /\ (~StartsWithDotDot(rstContent[p]) \/ IsTabs(p)))
        => Kept(p)

\* a is a subsequence of b: the lines of a are found in b in their order.
RECURSIVE SubsequenceOf(_, _)
SubsequenceOf(a, b) ==
  IF a = <<>> THEN TRUE
  ELSE IF b = <<>> THEN FALSE
  ELSE IF Head(a) = Head(b) THEN SubsequenceOf(Tail(a), Tail(b))
  ELSE SubsequenceOf(a, Tail(b))

\* C20: for every input and every setting the call has a result, of no more
\* lines than the input, and the returned lines are a subsequence of the
\* input lines: each is the input line pushed
\* for it, unchanged, the lines pushed are in increasing order of their index
\* (none twice), also when the input ends inside a tab block.
C20_OutputIsSubsequence ==
  /\ fpc = "input" =>
       Len(FilterByLanguage(rstContent, language).filteredLines) <= Len(rstContent)
  /\ fpc = "filtered" =>
       /\ SubsequenceOf(filteredLines, rstContent)
       /\ Len(filteredLines) = Len(keptIdx)
       /\ \A x \in DOMAIN keptIdx :
            keptIdx[x] \in Lines /\ filteredLines[x] = rstContent[keptIdx[x]]
       /\ \A x, y \in DOMAIN keptIdx : x < y => keptIdx[x] < keptIdx[y]

\* C20 witness: the input ends inside the second code tab of an unterminated
\* tab block; the call returned the directive and the target tab's line.
C20_Witness ==
  /\ fpc = "filtered"
  /\ language = "gdscript"
  /\ rstContent = <<TabsLine(0), CodeTabLine(1, "gdscript", {"gdscript"}), TextLine(1),
                    CodeTabLine(1, "csharp", {"csharp"}), TextLine(1)>>
  /\ filteredLines = <<TabsLine(0), TextLine(1)>>
  /\ keptIdx = <<1, 3>>

\* --------------------------------------------- reconstructTables: claims
\* An element of the result array that is a synthesized table.
IsPropertiesTable(element) == element # <<>> /\ element[1].kind = "phead"
IsTable(element) == element # <<>> /\ element[1].kind \in {"phead", "mhead"}

\* The rows of a table: its lines after the two header lines.
RowsOf(table) == SubSeq(table, 3, Len(table))

\* Index in the input of the heading an inserted table follows: the table is
\* the second element after the heading, and each table before it added three
\* elements.
HeadingIndexOf(q) ==
  (q - 2) - 3 * Cardinality({r \in 1..(q - 1) : IsTable(result[r])})

\* The first 'Property Descriptions' heading at or after line from.
DescriptionsAt(from) ==
  CHOOSE d \in from..Len(mdLines) :
    /\ IsHeading(mdLines[d], "Property Descriptions")
    /\ \A e \in from..(d - 1) : ~IsHeading(mdLines[e], "Property Descriptions")

\* The first line after d that is a level-2 heading; past the end if none.
NextHeadingAfter(d) ==
  IF \E e \in (d + 1)..Len(mdLines) : mdLines[e].kind = "h2"
    THEN CHOOSE e \in (d + 1)..Len(mdLines) :
           /\ mdLines[e].kind = "h2"
           /\ \A f \in (d + 1)..(e - 1) : mdLines[f].kind # "h2"
    ELSE Len(mdLines) + 1

\* The first line after d that is a level-2 heading other than another
\* 'Property Descriptions' heading; past the end if none.
NextOtherHeadingAfter(d) ==
  LET other(e) == mdLines[e].kind = "h2" /\ mdLines[e].text # "Property Descriptions"
  IN  IF \E e \in (d + 1)..Len(mdLines) : other(e)
        THEN CHOOSE e \in (d + 1)..Len(mdLines) :
               other(e) /\ \A f \in (d + 1)..(e - 1) : ~other(f)
        ELSE Len(mdLines) + 1

\* The row a property declaration line stands for: its type, name and
\* default unchanged, an empty cell when it has no default.
RowOfLine(line) ==
  MdLine("prow", "", line.type, line.name,
         IF line.def = NoDefault THEN "" ELSE line.def, <<>>, <<>>)

\* One row per property declaration among the lines from..to, in their order.
RowsFor(from, to) ==
  LET decl == SelectSeq(SubSeq(mdLines, from, to), LAMBDA l : l.kind = "prop")
  IN  [x \in 1..Len(decl) |-> RowOfLine(decl[x])]

\* C10 as stated: a synthesized Properties table has exactly the rows of the
\* property declaration lines between the 'Property Descriptions' heading
\* and the next level-2 heading, in document order.
C10_RowsUpToNextHeading ==
  tpc = "done" =>
    \A q \in DOMAIN result :
      IsPropertiesTable(result[q]) =>
        LET d == DescriptionsAt(HeadingIndexOf(q))
        IN  RowsOf(result[q]) = RowsFor(d + 1, NextHeadingAfter(d) - 1)

\* What the code does (C10): the parse loop does not stop at a repeated
\* 'Property Descriptions' heading, so the rows are those of the declaration
\* lines up to the next level-2 heading with another text.
RowsUpToNextOtherHeading ==
  tpc = "done" =>
    \A q \in DOMAIN result :
      IsPropertiesTable(result[q]) =>
        LET d == DescriptionsAt(HeadingIndexOf(q))
        IN  RowsOf(result[q]) = RowsFor(d + 1, NextOtherHeadingAfter(d) - 1)

\* A table of two rows is synthesized from a section that holds a declaration
\* with a default, a line of prose and a declaration without a default.
TwoRowTableReached ==
  /\ tpc = "done"
  /\ mdLines = <<Heading("Properties"), Heading("Methods"),
                 Heading("Property Descriptions"), P1, Prose, P2>>
  /\ IsPropertiesTable(result[3])
  /\ RowsOf(result[3]) = <<RowOfLine(P1), RowOfLine(P2)>>
  /\ reconstructed[3] = TableLine("phead")

\* The table inserted after input line p, Null when there is none.
TableAfter(p) ==
  IF \E q \in DOMAIN result : IsTable(result[q]) /\ HeadingIndexOf(q) = p
    THEN result[CHOOSE q \in DOMAIN result :
                  IsTable(result[q]) /\ HeadingIndexOf(q) = p]
    ELSE Null

\* The first heading with the given text at or after line from, 0 when the
\* document has none.
SectionAt(from, text) ==
  IF \E d \in from..Len(mdLines) : IsHeading(mdLines[d], text)
    THEN CHOOSE d \in from..Len(mdLines) :
           /\ IsHeading(mdLines[d], text)
           /\ \A e \in from..(d - 1) : ~IsHeading(mdLines[e], text)
    ELSE 0

\* The first level-2 heading after d with a text other than own; past the end
\* if there is none.
NextHeadingOtherThan(d, own) ==
  LET other(e) == mdLines[e].kind = "h2" /\ mdLines[e].text # own
  IN  IF \E e \in (d + 1)..Len(mdLines) : other(e)
        THEN CHOOSE e \in (d + 1)..Len(mdLines) :
               other(e) /\ \A f \in (d + 1)..(e - 1) : ~other(f)
        ELSE Len(mdLines) + 1

\* The declaration lines of a kind among the lines from..to.
Declarations(kind, from, to) ==
  SelectSeq(SubSeq(mdLines, from, to), LAMBDA l : l.kind = kind)

\* The section with the given heading, looked for from line p, is absent or
\* holds no declaration of the kind up to the next level-2 heading.
NoRecords(p, text, kind) ==
  LET d == SectionAt(p, text)
  IN  d = 0 \/ Declarations(kind, d + 1, NextHeadingAfter(d) - 1) = <<>>

\* The same, the section running up to the next level-2 heading with another
\* text, as the parse loops read it.
NoRecordsRead(p, text, kind) ==
  LET d == SectionAt(p, text)
  IN  d = 0 \/ Declarations(kind, d + 1, NextHeadingOtherThan(d, text) - 1) = <<>>

\* C11 as stated: when the 'Property Descriptions' (resp. 'Method
\* Descriptions') section is absent or holds no line matching the declaration
\* pattern, nothing is inserted after the 'Properties' (resp. 'Methods')
\* heading, and when that is so for every such heading the output is the
\* input.
C11_NothingInsertedWithoutRecords ==
  tpc = "done" =>
    LET props == {p \in DOMAIN mdLines : IsHeading(mdLines[p], "Properties")}
        meths == {p \in DOMAIN mdLines : IsHeading(mdLines[p], "Methods")}
    IN  /\ \A p \in props :
             NoRecords(p, "Property Descriptions", "prop") => TableAfter(p) = Null
        /\ \A p \in meths :
             NoRecords(p, "Method Descriptions", "method") => TableAfter(p) = Null
        /\ ( /\ \A p \in props : NoRecords(p, "Property Descriptions", "prop")
             /\ \A p \in meths : NoRecords(p, "Method Descriptions", "method") )
           => reconstructed = mdLines

\* What the code does (C11): nothing is inserted when the section as the parse
\* loop reads it, through repeated headings of its own text, holds no
\* declaration.
NothingInsertedWithoutRecordsRead ==
  tpc = "done" =>
    LET props == {p \in DOMAIN mdLines : IsHeading(mdLines[p], "Properties")}
        meths == {p \in DOMAIN mdLines : IsHeading(mdLines[p], "Methods")}
    IN  /\ \A p \in props :
             NoRecordsRead(p, "Property Descriptions", "prop") => TableAfter(p) = Null
        /\ \A p \in meths :
             NoRecordsRead(p, "Method Descriptions", "method") => TableAfter(p) = Null
        /\ ( /\ \A p \in props : NoRecordsRead(p, "Property Descriptions", "prop")
             /\ \A p \in meths : NoRecordsRead(p, "Method Descriptions", "method") )
           => reconstructed = mdLines

\* A document with both description sections, neither holding a declaration,
\* comes out as it went in.
EmptySectionsUntouched ==
  /\ tpc = "done"
  /\ mdLines = <<Heading("Properties"), Heading("Methods"),
                 Heading("Property Descriptions"), Prose,
                 Heading("Method Descriptions"), Prose>>
  /\ reconstructed = mdLines

\* First index at or after from of a line of out that is not a row of the
\* given kind.
RECURSIVE RowsEnd(_, _, _)
RowsEnd(out, from, kind) ==
  IF from > Len(out) \/ out[from].kind # kind THEN from
  ELSE RowsEnd(out, from + 1, kind)

\* Index of the blank line that closes a table inserted after the heading at
\* line at of out: a blank line, the two header lines and one row or more of
\* the heading's table, a blank line, then a level-2 heading. 0 when the lines
\* after the heading are not of that form.
InsertedAfter(out, at) ==
  LET head == IF IsHeading(out[at], "Properties") THEN "phead" ELSE "mhead"
      sep == IF IsHeading(out[at], "Properties") THEN "psep" ELSE "msep"
      row == IF IsHeading(out[at], "Properties") THEN "prow" ELSE "mrow"
      e == RowsEnd(out, at + 4, row)
  IN  IF /\ IsHeading(out[at], "Properties") \/ IsHeading(out[at], "Methods")
         /\ at + 5 <= Len(out)
         /\ out[at + 1] = EmptyLine
         /\ out[at + 2] = TableLine(head)
         /\ out[at + 3] = TableLine(sep)
         /\ e > at + 4
         /\ e + 1 <= Len(out)
         /\ out[e] = EmptyLine
         /\ out[e + 1].kind = "h2"
        THEN e ELSE 0

\* The lines of out from index at without the tables so inserted.
RECURSIVE WithoutTables(_, _)
WithoutTables(out, at) ==
  IF at > Len(out) THEN <<>>
  ELSE IF InsertedAfter(out, at) # 0
    THEN <<out[at]>> \o WithoutTables(out, InsertedAfter(out, at) + 1)
  ELSE <<out[at]>> \o WithoutTables(out, at + 1)

\* C12: the output is the input with lines added only: taking away each
\* synthesized table, with the one blank line before and the one after it,
\* that directly follows an empty 'Properties' or 'Methods' heading leaves
\* exactly the input lines, unchanged and in their order.
C12_OnlyInserts ==
  tpc = "done" => WithoutTables(reconstructed, 1) = mdLines

\* Both tables are inserted and both description sections stay in place.
C12_Witness ==
  /\ tpc = "done"
  /\ mdLines = <<Heading("Properties"), Heading("Methods"),
                 Heading("Property Descriptions"), P1,
                 Heading("Method Descriptions"), M1>>
  /\ Len(reconstructed) = Len(mdLines) + 10
  /\ InsertedAfter(reconstructed, 1) = 6
  /\ InsertedAfter(reconstructed, 7) = 12
  /\ SubSeq(reconstructed, 13, 16) = SubSeq(mdLines, 3, 6)

\* The next line after p that is not blank is the heading with the text.
NextNonBlankIs(p, text) ==
  LET j == SkipBlankLines(mdLines, p + 1)
  IN  j <= Len(mdLines) /\ IsHeading(mdLines[j], text)

\* The line directly after p is the heading with the text.
NextLineIs(p, text) ==
  p + 1 <= Len(mdLines) /\ IsHeading(mdLines[p + 1], text)

WithoutAnnotation(ret) ==
  LET text == TrimTokens(ret)
      opens == {x \in DOMAIN text : text[x] = "("}
      open == CHOOSE x \in opens : \A y \in opens : y <= x
      bare == IF text # <<>> /\ text[Len(text)] = ")" /\ opens # {}
                THEN TrimTokens(SubSeq(text, 1, open - 1))
                ELSE text
  IN  IF bare = <<>> THEN <<"void">> ELSE bare

\* The row a method declaration line stands for: the return type without its
\* annotation and the name with the whole text between the parentheses.
MethodRowOfLine(line) ==
  MdLine("mrow", "", "", line.name, NoDefault, WithoutAnnotation(line.ret), line.params)

\* The same with the text between the parentheses cut before its first ')'.
MethodRowCutOfLine(line) ==
  LET close == IndexOfToken(line.params, ")", 1)
  IN  MdLine("mrow", "", "", line.name, NoDefault, WithoutAnnotation(line.ret),
             IF close = 0 THEN line.params ELSE SubSeq(line.params, 1, close - 1))

\* The method declaration lines read for the table inserted after line p.
MethodsReadFor(p) ==
  LET d == SectionAt(p, "Method Descriptions")
  IN  Declarations("method", d + 1, NextHeadingOtherThan(d, "Method Descriptions") - 1)

\* C16 as stated: each row of a synthesized Methods table has the return
\* type of its declaration line without the trailing annotation ('void' when
\* nothing remains) and the signature '**name**(params)' with the complete
\* text between the opening parenthesis and its matching closing one.
C16_MethodRowsVerbatim ==
  tpc = "done" =>
    \A p \in DOMAIN mdLines :
      (IsHeading(mdLines[p], "Methods") /\ TableAfter(p) # Null) =>
        RowsOf(TableAfter(p)) =
          [x \in DOMAIN MethodsReadFor(p) |-> MethodRowOfLine(MethodsReadFor(p)[x])]

\* What the code does (C16): the parameters of a row end before the first
\* ')' of the declaration.
MethodRowsCutAtFirstParenthesis ==
  tpc = "done" =>
    \A p \in DOMAIN mdLines :
      (IsHeading(mdLines[p], "Methods") /\ TableAfter(p) # Null) =>
        RowsOf(TableAfter(p)) =
          [x \in DOMAIN MethodsReadFor(p) |-> MethodRowCutOfLine(MethodsReadFor(p)[x])]

\* A Methods table is synthesized from a declaration with an annotated return
\* type and one with a parenthesised default.
MethodsTableReached ==
  /\ tpc = "done"
  /\ mdLines = <<Heading("Properties"), Heading("Methods"),
                 Heading("Property Descriptions"), Heading("Method Descriptions"),
                 M1, M2>>
  /\ RowsOf(TableAfter(2)) =
       <<MethodRowOfLine(M1),
         MdLine("mrow", "", "", "get_scale", NoDefault, <<"Vector2">>,
                <<"v: Vector2 = Vector2", "(", "0, 0">>)>>

Init == OrchInit /\ FilterIdle /\ TableIdle /\ CleanIdle /\ ConfigIdle

Next == OrchNext /\ UNCHANGED <<filterVars, tableVars, cleanVars, configVars>>

Spec == Init /\ [][Next]_vars

\* The event loop goes on running: every step that can be taken is taken, each
\* call of the chain returning or failing.
FairSpec == Spec /\ WF_vars(Next)

\* ------------------------------------------ specification of the filter
OrchIdle ==
  /\ rstFiles = <<>>
  /\ concurrency = 1
  /\ pc = "idle"
  /\ i = 0
  /\ batch = <<>>
  /\ dispatched = 0
  /\ running = 0
  /\ phase = <<>>
  /\ thrown = <<>>
  /\ settled = <<>>
  /\ tmpFiles = {}
  /\ microtasks = <<>>
  /\ results = <<>>
  /\ completed = 0
  /\ warnings = <<>>
  /\ convertedFiles = <<>>

FilterSpecInit == FilterInit /\ OrchIdle /\ TableIdle /\ CleanIdle /\ ConfigIdle

FilterNext == ApplyFilter /\ UNCHANGED <<orchVars, tableVars, cleanVars, configVars>>

FilterSpec == FilterSpecInit /\ [][FilterNext]_vars

\* ------------------------------- specification of the table reconstruction
TableSpecInit == TableInit /\ OrchIdle /\ FilterIdle /\ CleanIdle /\ ConfigIdle

TableNext == ApplyReconstruct /\ UNCHANGED <<orchVars, filterVars, cleanVars, configVars>>

TableSpec == TableSpecInit /\ [][TableNext]_vars

\* -------------------------------------------------- cleanupForLLM: claims
\* C13: the cleaner is idempotent: applied to its own output it returns that
\* output.
C13_Idempotent ==
  cpc = "recleaned" => recleaned = cleaned

\* The blocks of fenced code of a text from line at: for each opening fence
\* that has a closing one, the lines between the two.
RECURSIVE FencedBlocks(_, _)
FencedBlocks(lines, at) ==
  LET open == IndexOfToken(lines, Fence, at)
      close == IF open = 0 THEN 0 ELSE IndexOfToken(lines, Fence, open + 1)
  IN  IF open = 0 \/ close = 0 THEN <<>>
      ELSE <<SubSeq(lines, open + 1, close - 1)>> \o FencedBlocks(lines, close + 1)

\* C14: every line between an opening and a closing code fence of the
\* converter output is in the cleaner's output unchanged: the blocks of fenced
\* code of the output are those of the input, line for line.
C14_FencedCodeUntouched ==
  cpc = "cleaned" => FencedBlocks(cleaned, 1) = FencedBlocks(converted, 1)

\* ------------------------------------------ specification of the cleaner
CleanSpecInit == CleanInit /\ OrchIdle /\ FilterIdle /\ TableIdle /\ ConfigIdle

CleanNext ==
  /\ ApplyCleanup \/ ApplyCleanupAgain
  /\ UNCHANGED <<orchVars, filterVars, tableVars, configVars>>

CleanSpec == CleanSpecInit /\ [][CleanNext]_vars

\* --------------------------------------------------- configuration: claims
\* Key f of the git section of object c has the value it has in object b.
GitFieldAsIn(c, f, b) ==
  /\ "git" \in c.keys
  /\ f \in c.val.git.keys
  /\ f \in b.val.git.keys
  /\ c.val.git.val[f] = b.val.git.val[f]

\* The top-level options that partial does not list are in after what they
\* were in before.
UnlistedOptionsKept(before, partial, after) ==
  \A k \in TopKeys \ partial.keys :
    k \in after.keys /\ after.val[k] = before.val[k]

\* The git keys that the git section of partial does not list are in after
\* what they were in before.
UnlistedGitFieldsKept(before, partial, after) ==
  "git" \in partial.keys =>
    \A f \in GitKeys \ partial.val.git.keys : GitFieldAsIn(after, f, before)

\* C21: a partial configuration applied to the default configuration, by the
\* constructor or by updateConfig after a construction without argument,
\* leaves the git fields it does not list at their default values and the
\* top-level options it does not list unchanged.
C21_UnlistedGitFieldsKeepDefaults ==
  /\ kpc = "constructed" =>
       /\ UnlistedGitFieldsKept(DefaultConfig, customConfig, config)
       /\ UnlistedOptionsKept(DefaultConfig, customConfig, config)
  /\ (kpc = "updated" /\ previous = DefaultConfig) =>
       /\ UnlistedGitFieldsKept(previous, newConfig, config)
       /\ UnlistedOptionsKept(previous, newConfig, config)

\* What the code does (C21): on both paths the top-level options that are not
\* listed stay, and a listed git section replaces the whole git section.
GitSectionReplacedWhole ==
  /\ kpc = "constructed" =>
       /\ UnlistedOptionsKept(DefaultConfig, customConfig, config)
       /\ "git" \in customConfig.keys => config.val.git = customConfig.val.git
  /\ kpc = "updated" =>
       /\ UnlistedOptionsKept(previous, newConfig, config)
       /\ "git" \in newConfig.keys => config.val.git = newConfig.val.git

\* The documented custom configuration, git section { branch, autoUpdate },
\* was applied by updateConfig after a construction without argument: the
\* git section has lost 'enabled' and 'repository'.
GitDefaultsLost ==
  /\ kpc = "updated"
  /\ customConfig.keys = {}
  /\ previous = DefaultConfig
  /\ newConfig.keys = TopKeys
  /\ newConfig.val.git.keys = {"branch", "autoUpdate"}
  /\ config.val.git.keys = {"branch", "autoUpdate"}

\* ------------------------------------- specification of the configuration
ConfigSpecInit == ConfigInit /\ OrchIdle /\ FilterIdle /\ TableIdle /\ CleanIdle

ConfigNext ==
  /\ Construct \/ UpdateConfig
  /\ UNCHANGED <<orchVars, filterVars, tableVars, cleanVars>>

ConfigSpec == ConfigSpecInit /\ [][ConfigNext]_vars

=============================================================================
